---- MODULE Spec2Model ----
(***************************************************************************)
(* Model of the query pipeline of src/main.py: create_query and the        *)
(* helpers classify_query, validate_parameters, preprocess_parameters.     *)
(* Python strings are sequences of one-character strings, so that lower(), *)
(* strip(), startswith() and replace() are computed and not assumed.       *)
(* Parameter bags are mappings from parameter names to strings.            *)
(***************************************************************************)
EXTENDS FiniteSets, Integers, Sequences, TLC

\* ------------------------------------------------------------------ bounds
\* largest number of keys in a parameter bag proposed by the classifier
MaxKeys == 1
\* how many times the vendor prefix is inserted into a component name when
\* building the inputs of preprocess_parameters
MaxNest == 3

\* ----------------------------------------------------------------- strings
U2L ==
  [A |-> "a", B |-> "b", C |-> "c", D |-> "d", E |-> "e", F |-> "f",
   G |-> "g", H |-> "h", I |-> "i", J |-> "j", K |-> "k", L |-> "l",
   M |-> "m", N |-> "n", O |-> "o", P |-> "p", Q |-> "q", R |-> "r",
   S |-> "s", T |-> "t", U |-> "u", V |-> "v", W |-> "w", X |-> "x",
   Y |-> "y", Z |-> "z"]

\* str.lower()
Lower(s) ==
  [i \in 1..Len(s) |-> IF s[i] \in DOMAIN U2L THEN U2L[s[i]] ELSE s[i]]

Whitespace == {" ", "\t", "\n"}

RECURSIVE LStrip(_)
LStrip(s) ==
  IF s # <<>> /\ Head(s) \in Whitespace THEN LStrip(Tail(s)) ELSE s

RECURSIVE RStrip(_)
RStrip(s) ==
  IF s # <<>> /\ s[Len(s)] \in Whitespace
    THEN RStrip(SubSeq(s, 1, Len(s) - 1))
    ELSE s

\* str.strip()
Strip(s) == RStrip(LStrip(s))

\* str.startswith(p)
StartsWith(s, p) ==
  /\ Len(s) >= Len(p)
  /\ SubSeq(s, 1, Len(p)) = p

\* str.replace(old, ""): every non-overlapping occurrence, left to right
RECURSIVE RemoveAll(_, _)
RemoveAll(s, old) ==
  IF Len(s) < Len(old) \/ old = <<>> THEN s
  ELSE IF StartsWith(s, old)
    THEN RemoveAll(SubSeq(s, Len(old) + 1, Len(s)), old)
    ELSE <<Head(s)>> \o RemoveAll(Tail(s), old)

\* ------------------------------------------------------- program constants
INTENTS ==
  {"ListNamespaces", "ListPods", "ListNodes", "GetPodStatus",
   "ListDeployments", "ListServices", "GetPodLogs", "DescribeDeployment",
   "ListNodeNames", "GetResourceQuota", "GetContainerPort",
   "GetReadinessProbePath", "GetEnvironmentVariable", "GetVolumeMountPath",
   "GetPodsAssociatedWithSecret", "GetServiceNamespace",
   "GetDeploymentStatus", "Unknown"}

S_core == <<"c", "o", "r", "e">>
S_database == <<"d", "a", "t", "a", "b", "a", "s", "e">>
S_jobservice == <<"j", "o", "b", "s", "e", "r", "v", "i", "c", "e">>
S_portal == <<"p", "o", "r", "t", "a", "l">>
S_redis == <<"r", "e", "d", "i", "s">>
S_registry == <<"r", "e", "g", "i", "s", "t", "r", "y">>
S_trivy == <<"t", "r", "i", "v", "y">>

COMPONENTS ==
  <<S_core, S_database, S_jobservice, S_portal, S_redis, S_registry, S_trivy>>

\* the vendor prefix "harbor-"
PREFIX == <<"h", "a", "r", "b", "o", "r", "-">>

S_default == <<"d", "e", "f", "a", "u", "l", "t">>
S_all == <<"a", "l", "l">>

ComponentIntents ==
  {"GetContainerPort", "GetReadinessProbePath", "GetEnvironmentVariable",
   "GetVolumeMountPath"}

Range(f) == {f[i] : i \in DOMAIN f}

\* dict.get(key, default)
Get(parameters, key, default) ==
  IF key \in DOMAIN parameters THEN parameters[key] ELSE default

\* ------------------------------------------------------------- validation
valid_components == COMPONENTS \o <<PREFIX \o S_redis>>

MsgInvalidComponent(component) ==
  [t |-> "InvalidComponent", component |-> component,
   valid |-> valid_components]

MsgSecretName == [t |-> "SecretNameNotProvided"]
MsgPodName == [t |-> "PodNameNotProvided"]
MsgDeploymentName == [t |-> "DeploymentNameNotProvided"]
MsgNone == [t |-> "none"]

validate_parameters(intent, parameters) ==
  IF intent \in ComponentIntents
    THEN LET component == Lower(Get(parameters, "component", <<>>))
         IN IF component \notin Range(valid_components)
              THEN [ok |-> FALSE, msg |-> MsgInvalidComponent(component)]
              ELSE [ok |-> TRUE, msg |-> MsgNone]
  ELSE IF intent = "GetPodsAssociatedWithSecret"
    THEN IF Strip(Get(parameters, "secret_name", <<>>)) = <<>>
           THEN [ok |-> FALSE, msg |-> MsgSecretName]
           ELSE [ok |-> TRUE, msg |-> MsgNone]
  ELSE IF intent \in {"GetPodStatus", "GetPodLogs"}
    THEN IF Strip(Get(parameters, "pod_name", <<>>)) = <<>>
           THEN [ok |-> FALSE, msg |-> MsgPodName]
           ELSE [ok |-> TRUE, msg |-> MsgNone]
  ELSE IF intent \in {"GetServiceNamespace", "DescribeDeployment",
                      "GetDeploymentStatus"}
    THEN IF Strip(Get(parameters, "deployment_name", <<>>)) = <<>>
           THEN [ok |-> FALSE, msg |-> MsgDeploymentName]
           ELSE [ok |-> TRUE, msg |-> MsgNone]
  ELSE [ok |-> TRUE, msg |-> MsgNone]

\* ---------------------------------------------------------- normalization
\* parameters["component"] = component
SetKey(parameters, key, value) ==
  [k \in (DOMAIN parameters) \cup {key} |->
     IF k = key THEN value ELSE parameters[k]]

\* a mutant of preprocess_parameters: the prefix is left in place
preprocess_parameters_NoStrip(intent, parameters) == parameters

preprocess_parameters(intent, parameters) ==
  IF intent \in ComponentIntents
    THEN LET component == Lower(Get(parameters, "component", <<>>))
         IN IF StartsWith(component, PREFIX)
              THEN SetKey(parameters, "component",
                          RemoveAll(component, PREFIX))
              ELSE parameters
    ELSE parameters

\* logs[:1000]
LOG_LIMIT == 1000

\* ------------------------------------------------- the seeded cluster
S_kube == <<"k", "u", "b", "e">>
S_p1 == <<"p", "1">>
S_p2 == <<"p", "2">>
S_p3 == <<"p", "3">>
S_d1 == <<"d", "1">>
S_svc == <<"s", "v", "c">>
S_s1 == <<"s", "1">>
S_nosuch == <<"n", "o">>

Namespaces == {S_default, S_kube}

\* the pods the cluster may hold
PodUniverse ==
  {[name |-> S_p1, ns |-> S_default], [name |-> S_p2, ns |-> S_default],
   [name |-> S_p3, ns |-> S_kube]}

NodeNames == <<<<"n", "1">>, <<"n", "2">>>>

Deployments ==
  << [name |-> S_d1, ns |-> S_default, component |-> S_core,
      replicas |-> 2, available |-> 1, strategy |-> "RollingUpdate",
      containers |-> << [ports |-> << [container_port |-> 8080,
                                       protocol |-> "TCP"] >>,
                         probe |-> <<"/", "p">>] >>],
     [name |-> PREFIX \o S_redis, ns |-> S_default, component |-> S_redis,
      replicas |-> 1, available |-> 1, strategy |-> "Recreate",
      containers |-> << [ports |-> <<>>, probe |-> <<>>] >>] >>

Services == << [name |-> S_svc, ns |-> S_kube] >>

\* status.hard of the first resource quota of a namespace, if it has one
Quotas == [ns \in {S_default} |-> <<"pods: 10">>]

\* length of the log text of each pod
LogLength ==
  [p \in {S_p1, S_p2, S_p3} |->
     IF p = S_p1 THEN LOG_LIMIT + 1 ELSE IF p = S_p2 THEN LOG_LIMIT ELSE 2]

Digits == <<"0", "1", "2", "3", "4", "5", "6", "7", "8", "9">>

\* the log text of each pod: its i-th character is the last digit of i
LogText(p) == [i \in 1..LogLength[p] |-> Digits[(i % Len(Digits)) + 1]]

\* what one ClusterReader call can suffer: nothing, an ApiException with a
\* status other than 404, or any other exception (transport)
Faults == {"none", "api", "transport"}

\* e.reason of the ApiException
ApiReason == "Forbidden"

\* the result of a call that reads one named object
Outcome(fault, exists) ==
  IF fault # "none" THEN fault ELSE IF exists THEN "ok" ELSE "notfound"

\* one ClusterReader call and how it ended
Call(op, ns, name, outcome) ==
  [op |-> op, ns |-> ns, name |-> name, outcome |-> outcome]

\* ------------------------------------------------------ classifier output
Keys ==
  {"component", "namespace", "pod_name", "secret_name", "deployment_name",
   "service_name"}

Values ==
  [component |-> {S_core, <<"C", "o", "r", "e">>, PREFIX \o S_core,
                  PREFIX \o S_redis, <<"H">> \o Tail(PREFIX) \o S_redis,
                  <<"f", "r", "o", "b">>, <<>>},
   namespace |-> {S_default, S_kube, S_all, <<"A", "l", "l">>, S_nosuch},
   pod_name |-> {S_p1, S_p2, S_nosuch, <<" ">>},
   secret_name |-> {S_s1, <<>>},
   deployment_name |-> {S_d1, S_nosuch, <<" ", "\t">>},
   service_name |-> {S_svc, <<"S", "v", "c">>, S_nosuch}]

AllValues == UNION {Values[k] : k \in Keys}

\* the parameter bags the classifier proposes
ParamBags ==
  UNION {{b \in [D -> AllValues] : \A k \in D : b[k] \in Values[k]} :
           D \in {D \in SUBSET Keys : Cardinality(D) <= MaxKeys}}

EmptyBag == CHOOSE b \in ParamBags : DOMAIN b = {}

\* the text the classifier returns: not JSON at all, JSON that is no object,
\* or a JSON object with or without the keys "intent" and "parameters"
Text(json, hasIntent, intent, hasParameters, parameters) ==
  [json |-> json, hasIntent |-> hasIntent, intent |-> intent,
   hasParameters |-> hasParameters, parameters |-> parameters]

NotJson == Text("invalid", FALSE, "", FALSE, EmptyBag)
JsonArray == Text("array", FALSE, "", FALSE, EmptyBag)

ProposedIntents == INTENTS \cup {"Foo"}

ClassifierTexts ==
  {NotJson, JsonArray}
    \cup {Text("object", TRUE, i, TRUE, b) :
            i \in ProposedIntents, b \in ParamBags}
    \cup {Text("object", FALSE, "", TRUE, b) : b \in ParamBags}
    \cup {Text("object", TRUE, i, FALSE, EmptyBag) : i \in ProposedIntents}

\* '{"intent": "Unknown", "parameters": {}}'
FallbackText == Text("object", TRUE, "Unknown", TRUE, EmptyBag)

\* json.loads raises on text that is not JSON
JsonLoadRaises(text) == text.json = "invalid"

\* classification_json.get raises when the JSON value is no object
JsonGetRaises(text) == text.json # "object"

\* --------------------------------------------------------------- requests
QueryTexts ==
  {<<>>, <<" ", " ">>, <<" ", "p", "o", "d", "s", "\n">>}

\* request bodies: with or without the key "query"
Requests ==
  {[hasQuery |-> FALSE, query |-> <<>>]}
    \cup {[hasQuery |-> TRUE, query |-> q] : q \in QueryTexts}

\* -------------------------------------------------------------- responses
NoAnswer == [t |-> "none"]

Answer(status, answer) ==
  [status |-> status, error |-> "", answer |-> answer]

Error(status, error) ==
  [status |-> status, error |-> error, answer |-> NoAnswer]

NoResponse == Error(0, "")

A_Unknown == [t |-> "DidNotUnderstand"]
A_NotRecognized == [t |-> "QueryNotRecognized"]
A_ApiError(reason) == [t |-> "ErrorOccurredReason", reason |-> reason]
A_Apology(what) == [t |-> "ErrorOccurredWhile", what |-> what]

\* ------------------------------------------------ inputs of normalization
\* s with the vendor prefix inserted after its first i characters
InsertPrefix(s, i) == SubSeq(s, 1, i) \o PREFIX \o SubSeq(s, i + 1, Len(s))

RECURSIVE Nested(_)
Nested(n) ==
  IF n = 0
    THEN {<<>>, S_core, <<"R", "e", "d", "i", "s">>}
    ELSE LET prev == Nested(n - 1)
         IN prev \cup UNION {{InsertPrefix(s, i) : i \in 0..Len(s)} :
                                s \in prev}
              \cup {<<"H", "A", "R", "B", "O", "R", "-">> \o s : s \in prev}

NormBags ==
  {[k \in {"component"} |-> c] : c \in Nested(MaxNest)}
    \cup {b \in ParamBags : "component" \notin DOMAIN b}

\* ------------------------------------------------------------------ state
VARIABLES
  pc,               \* position of the request handler
  v1ok,             \* v1 and apps_v1 were initialised at start-up
  pods,             \* the pods of the cluster
  query,            \* the stripped query text of the request
  classification,   \* the text classify_query returned
  classifierCalls,  \* calls of the classifier made for this request
  classifierFailed, \* the classifier call raised
  intent,
  params,
  validation,       \* "none", "passed" or "failed"
  stages,           \* the pipeline stages run for this request, in order
  calls,            \* the ClusterReader calls made for this request
  dispatched,       \* the branch of the dispatch that ran, "" if none
  response,
  normIntent,       \* input of the normalization run
  normIn,
  normOnce,         \* preprocess_parameters applied once
  normTwice         \* and applied to its own result

reqvars ==
  <<query, classification, classifierCalls, classifierFailed, intent, params,
    validation, stages, calls, dispatched, response>>

normvars == <<normIntent, normIn, normOnce, normTwice>>

vars == <<pc, v1ok, pods, reqvars, normvars>>

NoRequest ==
  /\ query = <<>>
  /\ classification = NotJson
  /\ classifierCalls = 0
  /\ classifierFailed = FALSE
  /\ intent = ""
  /\ params = EmptyBag
  /\ validation = "none"
  /\ stages = <<>>
  /\ calls = <<>>
  /\ dispatched = ""
  /\ response = NoResponse

NoNorm ==
  /\ normIntent = ""
  /\ normIn = EmptyBag
  /\ normOnce = EmptyBag
  /\ normTwice = EmptyBag

Init ==
  /\ pc = "idle"
  /\ v1ok \in BOOLEAN
  /\ pods \in SUBSET PodUniverse
  /\ NoRequest
  /\ NoNorm

\* ------------------------------------------------------------ the pipeline
\* request.json, request_data.get('query', "").strip()
ReceiveRequest ==
  /\ pc = "idle"
  /\ \E r \in Requests :
       query' = Strip(IF r.hasQuery THEN r.query ELSE <<>>)
  /\ pc' = "received"
  /\ UNCHANGED <<v1ok, pods, classification, classifierCalls,
                 classifierFailed, intent, params, validation, stages, calls,
                 dispatched, response, normvars>>

\* if v1 is None or apps_v1 is None: return 500
ClientNotInitialized ==
  /\ pc = "received"
  /\ ~v1ok
  /\ response' = Error(500, "Kubernetes client not initialized")
  /\ pc' = "done"
  /\ UNCHANGED <<v1ok, pods, query, classification, classifierCalls,
                 classifierFailed, intent, params, validation, stages, calls,
                 dispatched, normvars>>

\* a mutant of classify_query: the except branch returns no JSON
classify_query_NoFallback(raised, text) == IF raised THEN NotJson ELSE text

\* classify_query: the text of the completion, or the fallback text when
\* the call raises
classify_query(raised, text) == IF raised THEN FallbackText ELSE text

ClassifyQuery ==
  /\ pc = "received"
  /\ v1ok
  /\ \E raised \in BOOLEAN, text \in ClassifierTexts :
       /\ raised => text = NotJson
       /\ classification' = classify_query(raised, text)
       /\ classifierFailed' = raised
  /\ classifierCalls' = classifierCalls + 1
  /\ stages' = Append(stages, "classify")
  /\ pc' = "classified"
  /\ UNCHANGED <<v1ok, pods, query, intent, params, validation, calls,
                 dispatched, response, normvars>>

\* a mutant of AfterParse: a text that cannot be parsed is classified again
AfterParse_Retry(text) ==
  IF JsonLoadRaises(text) \/ JsonGetRaises(text)
    THEN [pc |-> "received", response |-> NoResponse]
    ELSE [pc |-> "parsed", response |-> NoResponse]

\* an exception of the parse reaches the outer except Exception, which
\* ends the request
AfterParse(text) ==
  IF JsonLoadRaises(text) \/ JsonGetRaises(text)
    THEN [pc |-> "done",
          response |-> Error(500, "An unexpected error occurred")]
    ELSE [pc |-> "parsed", response |-> NoResponse]

\* json.loads(classification), .get("intent", "Unknown"),
\* .get("parameters", {}); an exception ends the request with 500
ParseClassification ==
  /\ pc = "classified"
  /\ stages' = Append(stages, "parse")
  /\ pc' = AfterParse(classification).pc
  /\ response' = AfterParse(classification).response
  /\ IF JsonLoadRaises(classification) \/ JsonGetRaises(classification)
       THEN UNCHANGED <<intent, params>>
       ELSE /\ intent' = IF classification.hasIntent
                           THEN classification.intent ELSE "Unknown"
            /\ params' = IF classification.hasParameters
                           THEN classification.parameters ELSE EmptyBag
  /\ UNCHANGED <<v1ok, pods, query, classification, classifierCalls,
                 classifierFailed, validation, calls, dispatched, normvars>>

\* a mutant of AfterValidation: the failure is logged and the handler goes on
AfterValidation_NoReturn(v) == [pc |-> "validated", response |-> NoResponse]

\* if not is_valid: return the validation message as the answer
AfterValidation(v) ==
  IF ~v.ok
    THEN [pc |-> "done", response |-> Answer(200, v.msg)]
    ELSE [pc |-> "validated", response |-> NoResponse]

\* is_valid, validation_msg = validate_parameters(intent, params)
ValidateParameters ==
  /\ pc = "parsed"
  /\ stages' = Append(stages, "validate")
  /\ LET v == validate_parameters(intent, params)
     IN /\ validation' = IF v.ok THEN "passed" ELSE "failed"
        /\ response' = AfterValidation(v).response
        /\ pc' = AfterValidation(v).pc
  /\ UNCHANGED <<v1ok, pods, query, classification, classifierCalls,
                 classifierFailed, intent, params, calls, dispatched,
                 normvars>>

\* params = preprocess_parameters(intent, params)
PreprocessParameters ==
  /\ pc = "validated"
  /\ stages' = Append(stages, "normalize")
  /\ params' = preprocess_parameters(intent, params)
  /\ pc' = "normalized"
  /\ UNCHANGED <<v1ok, pods, query, classification, classifierCalls,
                 classifierFailed, intent, validation, calls, dispatched,
                 response, normvars>>

\* ------------------------------------------------------------ the dispatch
Unexpected == Error(500, "An unexpected error occurred")

\* what a handler did: the calls it made, in order, and its response
Did(made, resp) == [made |-> made, resp |-> resp]

\* try: ... except ApiException (404 or e.reason) ... except Exception
Caught(outcome, ok, notfound, apology) ==
  IF outcome = "ok" THEN ok
  ELSE IF outcome = "notfound" THEN notfound
  ELSE IF outcome = "api" THEN A_ApiError(ApiReason)
  ELSE apology

\* a handler with no try of its own: the exception reaches the outer
\* except Exception of create_query
Uncaught(outcome, ok) ==
  IF outcome = "ok" THEN Answer(200, ok) ELSE Unexpected

PodsIn(podset, ns) == {p \in podset : p.ns = ns}

ListNamespacesHandler(f) ==
  LET o == Outcome(f, TRUE)
  IN Did(<<Call("list_namespace", <<>>, <<>>, o)>>,
         Uncaught(o, [t |-> "NamespaceCount", n |-> Cardinality(Namespaces)]))

ListPodsAll(podset, f) ==
  LET o == Outcome(f, TRUE)
  IN Did(<<Call("list_pod_for_all_namespaces", <<>>, <<>>, o)>>,
         Answer(200,
                IF o = "ok"
                  THEN [t |-> "PodsInCluster", n |-> Cardinality(podset)]
                  ELSE A_Apology("fetching pods across all namespaces")))

ListPodsNamespaced(podset, namespace, f1, f2) ==
  LET o1 == Outcome(f1, namespace \in Namespaces)
      o2 == Outcome(f2, TRUE)
      o == IF o1 = "ok" THEN o2 ELSE o1
  IN Did(<<Call("read_namespace", <<>>, namespace, o1)>>
           \o (IF o1 = "ok"
                 THEN <<Call("list_namespaced_pod", namespace, <<>>, o2)>>
                 ELSE <<>>),
         Answer(200,
                Caught(o,
                       [t |-> "PodsInNamespace", ns |-> namespace,
                        n |-> Cardinality(PodsIn(podset, namespace))],
                       [t |-> "NamespaceNotFound", ns |-> namespace],
                       A_Apology("fetching pods"))))

\* a mutant of ListPodsHandler: the sentinel is compared case-sensitively
ListPodsHandler_CaseSensitive(parameters, podset, f1, f2) ==
  LET namespace == Get(parameters, "namespace", S_default)
  IN IF namespace = S_all
       THEN ListPodsAll(podset, f1)
       ELSE ListPodsNamespaced(podset, namespace, f1, f2)

ListPodsHandler(parameters, podset, f1, f2) ==
  LET namespace == Get(parameters, "namespace", S_default)
  IN IF Lower(namespace) = S_all
       THEN ListPodsAll(podset, f1)
       ELSE ListPodsNamespaced(podset, namespace, f1, f2)

ListNodesHandler(f) ==
  LET o == Outcome(f, TRUE)
  IN Did(<<Call("list_node", <<>>, <<>>, o)>>,
         Uncaught(o, [t |-> "NodeCount", n |-> Len(NodeNames)]))

ListNodeNamesHandler(f) ==
  LET o == Outcome(f, TRUE)
  IN Did(<<Call("list_node", <<>>, <<>>, o)>>,
         Uncaught(o, [t |-> "NodeNames", names |-> NodeNames]))

GetPodStatusHandler(parameters, podset, f) ==
  LET pod_name == Get(parameters, "pod_name", <<>>)
      namespace == Get(parameters, "namespace", S_default)
      o == Outcome(f, [name |-> pod_name, ns |-> namespace] \in podset)
  IN IF pod_name # <<>>
       THEN Did(<<Call("read_namespaced_pod", namespace, pod_name, o)>>,
                Answer(200,
                       Caught(o,
                              [t |-> "PodStatus", pod |-> pod_name,
                               ns |-> namespace, phase |-> "Running"],
                              [t |-> "PodNotFound", pod |-> pod_name,
                               ns |-> namespace],
                              A_Apology("fetching pod status"))))
       ELSE Did(<<>>, Answer(200, MsgPodName))

ListDeploymentsHandler(parameters, f) ==
  LET namespace == Get(parameters, "namespace", S_default)
      o == Outcome(f, TRUE)
      found == {i \in DOMAIN Deployments : Deployments[i].ns = namespace}
  IN Did(<<Call("list_namespaced_deployment", namespace, <<>>, o)>>,
         Answer(200,
                Caught(o,
                       [t |-> "DeploymentCount", ns |-> namespace,
                        n |-> Cardinality(found)],
                       [t |-> "NamespaceNotFound", ns |-> namespace],
                       A_Apology("fetching deployments"))))

ListServicesByName(service_name, f) ==
  LET o == Outcome(f, TRUE)
      hits == {i \in DOMAIN Services :
                 Lower(Services[i].name) = Lower(service_name)}
      first == CHOOSE i \in hits : \A j \in hits : i <= j
  IN Did(<<Call("list_service_for_all_namespaces", <<>>, <<>>, o)>>,
         Answer(200,
                IF o # "ok" THEN A_Apology("fetching the service details")
                ELSE IF hits # {}
                  THEN [t |-> "ServiceIn", service |-> service_name,
                        ns |-> Services[first].ns]
                  ELSE [t |-> "ServiceNotFound", service |-> service_name]))

ListServicesNamespaced(namespace, f1, f2) ==
  LET o1 == Outcome(f1, namespace \in Namespaces)
      o2 == Outcome(f2, TRUE)
      o == IF o1 = "ok" THEN o2 ELSE o1
      found == {i \in DOMAIN Services : Services[i].ns = namespace}
  IN Did(<<Call("read_namespace", <<>>, namespace, o1)>>
           \o (IF o1 = "ok"
                 THEN <<Call("list_namespaced_service", namespace, <<>>, o2)>>
                 ELSE <<>>),
         Answer(200,
                Caught(o,
                       [t |-> "ServiceCount", ns |-> namespace,
                        n |-> Cardinality(found)],
                       [t |-> "NamespaceNotFound", ns |-> namespace],
                       A_Apology("fetching services"))))

ListServicesHandler(parameters, f1, f2) ==
  LET service_name == Get(parameters, "service_name", <<>>)
  IN IF service_name # <<>>
       THEN ListServicesByName(service_name, f1)
       ELSE ListServicesNamespaced(Get(parameters, "namespace", S_default),
                                   f1, f2)

Min(a, b) == IF a <= b THEN a ELSE b

\* s[:n]
Slice(s, n) == SubSeq(s, 1, Min(Len(s), n))

\* the ellipsis marker '...'
Marker == <<".", ".", ".">>

\* a mutant of LogAnswerText: the marker is added from the limit on
LogAnswerText_AtLimit(logs) ==
  Slice(logs, LOG_LIMIT) \o (IF Len(logs) >= LOG_LIMIT THEN Marker ELSE <<>>)

\* {logs[:1000]}{'...' if len(logs) > 1000 else ''}
LogAnswerText(logs) ==
  Slice(logs, LOG_LIMIT) \o (IF Len(logs) > LOG_LIMIT THEN Marker ELSE <<>>)

GetPodLogsHandler(parameters, podset, f) ==
  LET pod_name == Get(parameters, "pod_name", <<>>)
      namespace == Get(parameters, "namespace", S_default)
      exists == [name |-> pod_name, ns |-> namespace] \in podset
      o == Outcome(f, exists)
  IN IF pod_name # <<>>
       THEN Did(<<Call("read_namespaced_pod_log", namespace, pod_name, o)>>,
                Answer(200,
                       IF o = "ok"
                         THEN [t |-> "PodLogs", pod |-> pod_name,
                               ns |-> namespace,
                               text |-> LogAnswerText(LogText(pod_name))]
                       ELSE IF o = "notfound"
                         THEN [t |-> "PodNotFound", pod |-> pod_name,
                               ns |-> namespace]
                       ELSE IF o = "api"
                         THEN [t |-> "CouldNotFetchLogs",
                               reason |-> ApiReason]
                       ELSE A_Apology("fetching pod logs")))
       ELSE Did(<<>>, Answer(200, MsgPodName))

DeploymentNamed(name, ns) ==
  {i \in DOMAIN Deployments :
     Deployments[i].name = name /\ Deployments[i].ns = ns}

DescribeDeploymentHandler(parameters, f) ==
  LET deployment_name == Get(parameters, "deployment_name", <<>>)
      namespace == Get(parameters, "namespace", S_default)
      found == DeploymentNamed(deployment_name, namespace)
      o == Outcome(f, found # {})
      d == Deployments[CHOOSE i \in found : TRUE]
  IN IF deployment_name # <<>>
       THEN Did(<<Call("read_namespaced_deployment", namespace,
                       deployment_name, o)>>,
                Answer(200,
                       IF o = "ok"
                         THEN [t |-> "DeploymentDescription",
                               deployment |-> deployment_name,
                               ns |-> namespace, replicas |-> d.replicas,
                               strategy |-> d.strategy]
                       ELSE IF o = "notfound"
                         THEN [t |-> "DeploymentNotFound",
                               deployment |-> deployment_name,
                               ns |-> namespace]
                       ELSE IF o = "api"
                         THEN [t |-> "CouldNotDescribeDeployment",
                               reason |-> ApiReason]
                       ELSE A_Apology("describing the deployment")))
       ELSE Did(<<>>, Answer(200, MsgDeploymentName))

GetDeploymentStatusHandler(parameters, f) ==
  LET deployment_name == Get(parameters, "deployment_name", <<>>)
      namespace == Get(parameters, "namespace", S_default)
      found == DeploymentNamed(deployment_name, namespace)
      o == Outcome(f, found # {})
      d == Deployments[CHOOSE i \in found : TRUE]
  IN IF deployment_name # <<>>
       THEN Did(<<Call("read_namespaced_deployment", namespace,
                       deployment_name, o)>>,
                Answer(200,
                       IF o = "ok"
                         THEN [t |-> "DeploymentStatus",
                               deployment |-> deployment_name,
                               ns |-> namespace, available |-> d.available,
                               desired |-> d.replicas]
                       ELSE IF o = "notfound"
                         THEN [t |-> "DeploymentNotFound",
                               deployment |-> deployment_name,
                               ns |-> namespace]
                       ELSE IF o = "api"
                         THEN [t |-> "CouldNotFetchDeploymentStatus",
                               reason |-> ApiReason]
                       ELSE A_Apology("fetching deployment status")))
       ELSE Did(<<>>, Answer(200, MsgDeploymentName))

GetResourceQuotaHandler(parameters, f) ==
  LET namespace == Get(parameters, "namespace", S_default)
      o == Outcome(f, TRUE)
  IN Did(<<Call("list_namespaced_resource_quota", namespace, <<>>, o)>>,
         Answer(200,
                Caught(o,
                       IF namespace \in DOMAIN Quotas
                         THEN [t |-> "ResourceQuota", ns |-> namespace,
                               hard |-> Quotas[namespace]]
                         ELSE [t |-> "NoResourceQuota", ns |-> namespace],
                       [t |-> "NamespaceNotFound", ns |-> namespace],
                       A_Apology("fetching resource quotas"))))

\* the deployments of namespace "default" whose label equals the component
\* and that have a container
Matching(component) ==
  {i \in DOMAIN Deployments :
     /\ Deployments[i].ns = S_default
     /\ Lower(Deployments[i].component) = Lower(component)
     /\ Deployments[i].containers # <<>>}

First(S) == CHOOSE i \in S : \A j \in S : i <= j

HasPorts(container) == container.ports # <<>>
HasProbe(container) == container.probe # <<>>

\* for ... break ... else: the first deployment the loop stops at gives the
\* answer; a loop that runs to its end answers "No deployment found"
GetContainerPortHandler(parameters, f) ==
  LET component == Get(parameters, "component", <<>>)
      o == Outcome(f, TRUE)
      stops == {i \in Matching(component) :
                 HasPorts(Deployments[i].containers[1])}
  IN IF component # <<>>
       THEN Did(<<Call("list_namespaced_deployment", S_default, <<>>, o)>>,
                Answer(200,
                       IF o # "ok" THEN A_Apology("fetching container ports")
                       ELSE IF stops # {}
                         THEN [t |-> "ContainerPorts",
                               component |-> component,
                               ports |->
                                 Deployments[First(stops)].containers[1].ports]
                         ELSE [t |-> "NoDeploymentFound",
                               component |-> component]))
       ELSE Did(<<>>, Answer(200, [t |-> "ComponentNameNotProvided"]))

GetReadinessProbePathHandler(parameters, f) ==
  LET component == Get(parameters, "component", <<>>)
      o == Outcome(f, TRUE)
      stops == {i \in Matching(component) :
                 HasProbe(Deployments[i].containers[1])}
  IN IF component # <<>>
       THEN Did(<<Call("list_namespaced_deployment", S_default, <<>>, o)>>,
                Answer(200,
                       IF o # "ok"
                         THEN A_Apology("fetching readiness probe path")
                       ELSE IF stops # {}
                         THEN [t |-> "ReadinessProbePath",
                               component |-> component,
                               path |->
                                 Deployments[First(stops)].containers[1].probe]
                         ELSE [t |-> "NoDeploymentFound",
                               component |-> component]))
       ELSE Did(<<>>, Answer(200, [t |-> "ComponentNameNotProvided"]))

\* elif intent == "Unknown"
UnknownHandler == Did(<<>>, Answer(200, A_Unknown))

\* else: answer = "Query not recognized."
NotRecognizedHandler == Did(<<>>, Answer(200, A_NotRecognized))

\* the intents create_query has a branch for
HandledIntents ==
  {"ListNamespaces", "ListPods", "ListNodes", "GetPodStatus",
   "ListDeployments", "ListServices", "GetPodLogs", "DescribeDeployment",
   "ListNodeNames", "GetResourceQuota", "GetContainerPort",
   "GetReadinessProbePath", "GetDeploymentStatus", "Unknown"}

\* the if/elif chain of create_query: the branch taken for an intent
Branch(i) == IF i \in HandledIntents THEN i ELSE "else"

\* the handler of the branch, under the faults f1, f2 of its calls
Dispatch(i, parameters, podset, f1, f2) ==
  CASE Branch(i) = "ListNamespaces" -> ListNamespacesHandler(f1)
    [] Branch(i) = "ListPods" -> ListPodsHandler(parameters, podset, f1, f2)
    [] Branch(i) = "ListNodes" -> ListNodesHandler(f1)
    [] Branch(i) = "GetPodStatus" ->
         GetPodStatusHandler(parameters, podset, f1)
    [] Branch(i) = "ListDeployments" -> ListDeploymentsHandler(parameters, f1)
    [] Branch(i) = "ListServices" -> ListServicesHandler(parameters, f1, f2)
    [] Branch(i) = "GetPodLogs" -> GetPodLogsHandler(parameters, podset, f1)
    [] Branch(i) = "DescribeDeployment" ->
         DescribeDeploymentHandler(parameters, f1)
    [] Branch(i) = "ListNodeNames" -> ListNodeNamesHandler(f1)
    [] Branch(i) = "GetResourceQuota" ->
         GetResourceQuotaHandler(parameters, f1)
    [] Branch(i) = "GetContainerPort" ->
         GetContainerPortHandler(parameters, f1)
    [] Branch(i) = "GetReadinessProbePath" ->
         GetReadinessProbePathHandler(parameters, f1)
    [] Branch(i) = "GetDeploymentStatus" ->
         GetDeploymentStatusHandler(parameters, f1)
    [] Branch(i) = "Unknown" -> UnknownHandler
    [] OTHER -> NotRecognizedHandler

\* the dispatch of create_query and the calls of the branch taken
DispatchQuery ==
  /\ pc = "normalized"
  /\ stages' = Append(stages, "dispatch")
  /\ dispatched' = Branch(intent)
  /\ \E f1 \in Faults, f2 \in Faults :
       LET did == Dispatch(intent, params, pods, f1, f2)
       IN /\ calls' = calls \o did.made
          /\ response' = did.resp
  /\ pc' = "done"
  /\ UNCHANGED <<v1ok, pods, query, classification, classifierCalls,
                 classifierFailed, intent, params, validation, normvars>>

\* return jsonify(...): the request is over
Respond ==
  /\ pc = "done"
  /\ pc' = "idle"
  /\ query' = <<>>
  /\ classification' = NotJson
  /\ classifierCalls' = 0
  /\ classifierFailed' = FALSE
  /\ intent' = ""
  /\ params' = EmptyBag
  /\ validation' = "none"
  /\ stages' = <<>>
  /\ calls' = <<>>
  /\ dispatched' = ""
  /\ response' = NoResponse
  /\ UNCHANGED <<v1ok, pods, normvars>>

Next ==
  \/ ReceiveRequest
  \/ ClientNotInitialized
  \/ ClassifyQuery
  \/ ParseClassification
  \/ ValidateParameters
  \/ PreprocessParameters
  \/ DispatchQuery
  \/ Respond

Spec == Init /\ [][Next]_vars

\* ------------------------------------- preprocess_parameters on its own
NormInit ==
  /\ pc = "norm0"
  /\ v1ok = TRUE
  /\ pods = {}
  /\ NoRequest
  /\ normIntent \in INTENTS
  /\ normIn \in NormBags
  /\ normOnce = EmptyBag
  /\ normTwice = EmptyBag

NormalizeOnce ==
  /\ pc = "norm0"
  /\ normOnce' = preprocess_parameters(normIntent, normIn)
  /\ pc' = "norm1"
  /\ UNCHANGED <<v1ok, pods, reqvars, normIntent, normIn, normTwice>>

NormalizeTwice ==
  /\ pc = "norm1"
  /\ normTwice' = preprocess_parameters(normIntent, normOnce)
  /\ pc' = "norm2"
  /\ UNCHANGED <<v1ok, pods, reqvars, normIntent, normIn, normOnce>>

NormNext == NormalizeOnce \/ NormalizeTwice

NormSpec == NormInit /\ [][NormNext]_vars

\* ------------------------------------------------------------- the claims
\* the classified text, as the program parsed it, proposes this component
Proposed(component) ==
  /\ "component" \in DOMAIN classification.parameters
  /\ classification.parameters["component"] = component

\* C1: with the cluster clients initialised, a request whose query text is
\* empty, whitespace-only or missing ends as a MalformedRequest error
\* (status 400) at once: the classifier is never called and no pipeline
\* stage runs.
C1_EmptyQueryIsMalformed ==
  (v1ok /\ pc \notin {"idle", "received"} /\ query = <<>>) =>
    /\ classifierCalls = 0
    /\ stages = <<>>
    /\ pc = "done" => response.status = 400

\* the classifier text is no JSON object with an intent and a parameters
\* object, or its intent is outside INTENTS
Unusable(text) ==
  \/ text.json # "object"
  \/ ~text.hasIntent
  \/ ~text.hasParameters
  \/ text.intent \notin INTENTS

\* C2: when the classifier text is not valid structured data or names an
\* intent outside INTENTS, the request ends with the 200 'did not
\* understand' answer, without any ClusterReader call and without an error.
C2_UnusableTextIsUnknown ==
  (pc = "done" /\ "classify" \in Range(stages) /\ Unusable(classification)) =>
    /\ calls = <<>>
    /\ response = Answer(200, A_Unknown)

\* C3: for a component-scoped intent, a component 'harbor-' + a vocabulary
\* name passes validation and reaches the dispatcher as the bare name.
C3_PrefixedComponentAccepted ==
  \A v \in Range(COMPONENTS) :
    (pc = "done" /\ validation # "none" /\ intent \in ComponentIntents
       /\ Proposed(PREFIX \o v)) =>
      /\ validation = "passed"
      /\ params["component"] = v

\* C4: preprocess_parameters is idempotent: applying it to its own result
\* changes nothing, for every intent and every parameter bag.
C4_NormalizeIdempotent == pc = "norm2" => normTwice = normOnce

\* C5: for a component-scoped intent, either validation fails with a
\* message that lists all seven names of the vocabulary, or the component
\* that reaches the dispatcher after normalization is, in lower case, a
\* name of the vocabulary.
C5_ComponentInVocabularyOrRejected ==
  (intent \in ComponentIntents /\ validation # "none") =>
    \/ /\ validation = "failed"
       /\ pc = "done"
       /\ response.status = 200
       /\ response.answer.t = "InvalidComponent"
       /\ Range(COMPONENTS) \subseteq Range(response.answer.valid)
    \/ /\ validation = "passed"
       /\ pc \in {"normalized", "done"} =>
            Lower(Get(params, "component", <<>>)) \in Range(COMPONENTS)

\* C5 witness: 'harbor-redis' passed validation and reached the dispatcher
\* as 'redis'
C5_Witness ==
  /\ pc = "done"
  /\ intent \in ComponentIntents
  /\ Proposed(PREFIX \o S_redis)
  /\ dispatched # ""
  /\ params["component"] = S_redis

\* C6: every intent of INTENTS other than Unknown, with parameters that
\* pass validation, is routed to its own handler, which makes at least one
\* ClusterReader call, and never gets the 'Query not recognized.' answer.
C6_OneHandlerPerIntent ==
  (pc = "done" /\ dispatched # "" /\ intent \in INTENTS \ {"Unknown"}) =>
    /\ dispatched = intent
    /\ calls # <<>>
    /\ response # Answer(200, A_NotRecognized)

\* a ClusterReader call of this request failed with an error other than
\* not-found
UpstreamFailed ==
  \E i \in DOMAIN calls : calls[i].outcome \in {"api", "transport"}

\* C7: when a ClusterReader call fails with an error other than not-found,
\* the request ends with status 200 and a fixed generic apology that holds
\* no text of the upstream error.
C7_UpstreamFailureIsApology ==
  (pc = "done" /\ UpstreamFailed) =>
    /\ response.status = 200
    /\ response.answer.t = "ErrorOccurredWhile"

RECURSIVE SumPods(_)
\* the sum of the pod counts of the namespaces in S
SumPods(S) ==
  IF S = {} THEN 0
  ELSE LET ns == CHOOSE x \in S : TRUE
       IN Cardinality(PodsIn(pods, ns)) + SumPods(S \ {ns})

\* the request is a ListPods whose namespace is 'all' in any letter case
ListPodsOfAll ==
  /\ pc = "done"
  /\ dispatched = "ListPods"
  /\ Lower(Get(params, "namespace", S_default)) = S_all

\* C8: ListPods with namespace 'all', in any letter case, makes the one
\* call that lists the pods of all namespaces, reads no single namespace,
\* and, the listing having succeeded, answers 'There are N pods in the
\* entire cluster.' with N the sum of the pod counts of the namespaces.
C8_ListPodsAll ==
  ListPodsOfAll =>
    /\ Len(calls) = 1
    /\ calls[1].op = "list_pod_for_all_namespaces"
    /\ calls[1].outcome = "ok" =>
         response = Answer(200, [t |-> "PodsInCluster",
                                 n |-> SumPods(Namespaces)])

\* C8 witness: namespace 'All' answered with the three pods of two
\* namespaces
C8_Witness ==
  /\ ListPodsOfAll
  /\ params["namespace"] = <<"A", "l", "l">>
  /\ pods = PodUniverse
  /\ response = Answer(200, [t |-> "PodsInCluster", n |-> 3])

\* C9: when validation fails, the request ends with status 200 and the
\* validation message as its answer, and neither normalization nor any
\* ClusterReader call takes place.
C9_ValidationFailureAnswers ==
  validation = "failed" =>
    /\ pc = "done"
    /\ response = Answer(200, validate_parameters(intent, params).msg)
    /\ response.answer # MsgNone
    /\ "normalize" \notin Range(stages)
    /\ "dispatch" \notin Range(stages)
    /\ calls = <<>>

\* C9 witness: a missing pod name was answered with its message
C9_Witness ==
  /\ validation = "failed"
  /\ intent = "GetPodLogs"
  /\ response = Answer(200, MsgPodName)

\* C10: when the intent is Unknown, as returned by the classifier or as the
\* fallback of a classifier call that raised, the request ends with the
\* 200 'did not understand' answer and makes no ClusterReader call.
C10_UnknownIsPolite ==
  /\ (classifierFailed /\ pc # "classified") => intent = "Unknown"
  /\ (pc = "done" /\ (classifierFailed \/ intent = "Unknown")) =>
       /\ response = Answer(200, A_Unknown)
       /\ calls = <<>>
       /\ dispatched = "Unknown"

\* C10 witness: the classifier call raised and the request was answered
C10_Witness ==
  /\ pc = "done"
  /\ classifierFailed
  /\ response = Answer(200, A_Unknown)

\* the deployments of namespace "default" that carry the component label
LabelMatches(component) ==
  {i \in DOMAIN Deployments :
     /\ Deployments[i].ns = S_default
     /\ Lower(Deployments[i].component) = Lower(component)}

\* a component-scoped lookup whose listing of the deployments succeeded
ComponentLookupDone ==
  /\ pc = "done"
  /\ dispatched \in {"GetContainerPort", "GetReadinessProbePath"}
  /\ calls # <<>>
  /\ calls[1].outcome = "ok"

\* C11: GetContainerPort and GetReadinessProbePath answer 'No deployment
\* found for component' only when no deployment carries the component
\* label; a matching deployment whose first container has no ports, or no
\* HTTP readiness probe, gets another answer.
C11_NoDeploymentOnlyWhenNoneMatches ==
  (ComponentLookupDone /\ response.answer.t = "NoDeploymentFound") =>
    LabelMatches(params["component"]) = {}

\* the stages of the pipeline, in the order of create_query
PipelineOrder == <<"classify", "parse", "validate", "normalize", "dispatch">>

\* C12: the pipeline of a request is sequential and has no retries: the
\* stages run in the order classify, parse, validate, normalize, dispatch,
\* each at most once; the classifier is called once; normalization runs
\* only after validation has passed; a ClusterReader call is made only
\* after normalization, and none after a call that failed.
C12_SequentialNoRetry ==
  /\ Len(stages) <= Len(PipelineOrder)
  /\ stages = SubSeq(PipelineOrder, 1, Len(stages))
  /\ classifierCalls = (IF "classify" \in Range(stages) THEN 1 ELSE 0)
  /\ (v1ok /\ pc = "done") => classifierCalls = 1
  /\ "validate" \in Range(stages) => pc # "classified"
  /\ "normalize" \in Range(stages) => validation = "passed"
  /\ calls # <<>> => stages = PipelineOrder
  /\ \A i \in DOMAIN calls : i < Len(calls) => calls[i].outcome = "ok"

\* C12 witness: all five stages ran, and the second ClusterReader call
\* failed without being made again
C12_Witness ==
  /\ pc = "done"
  /\ stages = PipelineOrder
  /\ classifierCalls = 1
  /\ Len(calls) = 2
  /\ calls[2].outcome = "transport"

\* GetPodLogs answered with the log text of a pod
PodLogsAnswered ==
  /\ pc = "done"
  /\ dispatched = "GetPodLogs"
  /\ response.answer.t = "PodLogs"

\* C13: the GetPodLogs answer carries the first min(L, 1000) characters of
\* a log of length L, followed by the marker '...' if and only if
\* L > 1000; a log of exactly 1000 characters is returned whole.
C13_LogsTruncated ==
  PodLogsAnswered =>
    LET log == LogText(calls[1].name)
        L == Len(log)
        k == IF L < LOG_LIMIT THEN L ELSE LOG_LIMIT
        text == response.answer.text
    IN /\ Len(text) >= k
       /\ \A i \in 1..k : text[i] = log[i]
       /\ L > LOG_LIMIT =>
            /\ Len(text) = k + Len(Marker)
            /\ \A i \in 1..Len(Marker) : text[k + i] = "."
       /\ L <= LOG_LIMIT => Len(text) = k
       /\ L = LOG_LIMIT => text = log

\* C13 witness: the log of exactly 1000 characters was returned whole
C13_Witness ==
  /\ PodLogsAnswered
  /\ calls[1].name = S_p2
  /\ Len(response.answer.text) = LOG_LIMIT

====
